---- MODULE Spec2Model ----
(***************************************************************************)
(* Model of src/api/index.js: a serverless handler that asks an LLM        *)
(* (phase 1) whether a tool is needed, runs the named Auth0 tool with a    *)
(* cached management token, and asks the LLM (phase 2) for the final text. *)
(*                                                                         *)
(* Each request runs on the JavaScript event loop: the code between two    *)
(* awaited network calls is one atomic step.  An action therefore models   *)
(* "the awaited call settles with answer a and the handler runs up to its  *)
(* next network call (or to its response)".                                *)
(***************************************************************************)
EXTENDS Integers, Sequences, FiniteSets, TLC

\* ------------------------------------------------------------------ bounds
\* Handler invocations that may overlap in one process.
Requests == {1, 2}
\* Clock advances the model allows (each of TickMs milliseconds).
MaxTicks == 2
\* Longest parts list of a phase-1 LLM answer.
MaxParts == 2

\* -------------------------------------------------------- program constants
MsPerSecond == 1000
MarginSeconds == 300
\* JavaScript NaN (a number that no comparison accepts); times are >= -Margin.
NaN == -999999999
\* The model's clock granularity (Date.now() is in milliseconds).
TickMs == 100 * MsPerSecond
\* expires_in values (seconds) the identity provider may declare.
Lifetimes == {300, 400}

\* --------------------------------------------------------------- JS values
Undefined == "<undefined>"
\* auth0Token values: '' (initial), undefined (data.access_token missing)
\* or an issued token: the provider's tokens are all different, and each is
\* named by the request that fetched it.  getAuth0Token may also return null,
\* which is never stored.
EmptyString == 0
UndefinedToken == -1
NullToken == -2
Truthy(tok) == tok >= 1

\* Response bodies of the handler
MethodNotAllowed == "Method Not Allowed"
PromptRequired == "Prompt is required."
GenericError == "Apologies, I encountered an internal error. Please check the server logs."
Apology == "I am sorry, I could not fulfill your request."

Body(key, val) == [key |-> key, val |-> val]
Response(status, key, val) == [status |-> status, body |-> Body(key, val)]

\* The registered tools: the own properties of the Auth0Api object.
ToolNames == {"list_users", "get_tenant_settings", "list_signing_keys"}
\* availableTools: the declarations sent to the LLM in phase 1.
availableTools == <<"list_users", "get_tenant_settings", "list_signing_keys">>

list_users == "/api/v2/users"
get_tenant_settings == "/api/v2/tenants/settings"
list_signing_keys == "/api/v2/keys/signing"

\* The endpoint each tool function fetches.
Endpoint(name) ==
    CASE name = "list_users" -> list_users
      [] name = "get_tenant_settings" -> get_tenant_settings
      [] name = "list_signing_keys" -> list_signing_keys

\* The properties Auth0Api inherits from Object.prototype: its functions (all
\* truthy), those of them that throw a TypeError when called with no
\* arguments, and the one that is an object, not callable.
InheritedFunctions ==
    {"constructor", "toString", "toLocaleString", "valueOf", "hasOwnProperty",
     "isPrototypeOf", "propertyIsEnumerable", "__lookupGetter__", "__lookupSetter__",
     "__defineGetter__", "__defineSetter__"}
ThrowWithoutArguments == {"__defineGetter__", "__defineSetter__"}
InheritedObjects == {"__proto__"}

\* Auth0Api[functionName]: JavaScript property lookup walks the prototype
\* chain, so an inherited name yields a value too.
Auth0Api(functionName) ==
    CASE functionName \in ToolNames -> "own"
      [] functionName \in InheritedFunctions -> "inherited function"
      [] functionName \in InheritedObjects -> "inherited object"
      [] OTHER -> Undefined


\* ------------------------------------------------- answers of collaborators
\* How an awaited fetch settles: "ok" (2xx with a JSON body), "status" (a
\* non-success status), "neterr" (fetch rejects), "badjson" (2xx whose body
\* does not parse).
Settle == {"ok", "status", "neterr", "badjson"}

\* Names the LLM may put in a function-call part.
CallNames == ToolNames \cup InheritedFunctions \cup InheritedObjects \cup {"List_Users", ""}

\* One part of an LLM message: a text part, or a function-call part under
\* either spelling of the marker.
TextPart(t) == [k |-> "text", v |-> t]
CallPart(marker, n) == [k |-> marker, v |-> n]
Parts ==
    {TextPart(t) : t \in {"Hi, how can I help?", ""}}
    \cup {CallPart("functionCall", n) : n \in CallNames}
    \cup {CallPart("function_call", n) : n \in {"list_users"}}

SeqsUpTo(S, n) == UNION {[1..k -> S] : k \in 0..n}

\* The JSON of an LLM answer, by how much of data.candidates[0].content.parts
\* exists.
LlmData(shape, parts) == [shape |-> shape, parts |-> parts]
LlmJson ==
    {LlmData(s, <<>>) : s \in {"no candidates", "no content", "no parts"}}
    \cup {LlmData("parts", ps) : ps \in SeqsUpTo(Parts, MaxParts)}

Answer(net, data) == [net |-> net, data |-> data]
NoData == LlmData("no candidates", <<>>)
Phase1Answers ==
    {Answer(n, NoData) : n \in Settle \ {"ok"}} \cup {Answer("ok", d) : d \in LlmJson}

Phase2Texts == {"There are 2 users.", "Summary."}
Phase2Answers ==
    {Answer(n, NoData) : n \in Settle \ {"ok"}}
    \cup {Answer("ok", LlmData(s, <<>>)) : s \in {"no candidates", "no content", "no parts"}}
    \cup {Answer("ok", LlmData("parts", <<>>))}
    \cup {Answer("ok", LlmData("parts", <<TextPart(t)>>)) : t \in Phase2Texts}
    \cup {Answer("ok", LlmData("parts", <<CallPart("functionCall", "list_users")>>))}

\* The identity provider's answer to the token request.  An "ok" answer is a
\* 2xx whose body is a JSON object: whether it has an access_token, and its
\* expires_in in seconds (NaN: the field is missing, and undefined - 300 is
\* NaN).  "null" is a 2xx whose body is the JSON value null: reading
\* data.access_token throws inside getAuth0Token's try block.
TokenSettle == Settle \cup {"null"}
TokenAnswer(net, has, l) == [net |-> net, access_token |-> has, expires_in |-> l]
TokenAnswers ==
    {TokenAnswer(n, FALSE, NaN) : n \in TokenSettle \ {"ok"}}
    \cup {TokenAnswer("ok", TRUE, l) : l \in Lifetimes \cup {NaN}}
    \cup {TokenAnswer("ok", FALSE, NaN)}

\* The backing API's answer; the data of a success is the resource of the
\* endpoint asked, served to the request that asked.
ApiAnswers == Settle
ApiData(endpoint, r) == [src |-> endpoint, for |-> r]
\* What an inherited function returns when called with no arguments on
\* Auth0Api (Object() is {}, Auth0Api.toString() is "[object Object]",
\* Auth0Api.hasOwnProperty() is false, ...): a value made inside the handler,
\* not data of the backing API.
InheritedResult(functionName, r) == [src |-> "Object.prototype." \o functionName, for |-> r]

\* The inbound request.
Methods == {"POST", "GET"}
NoBody == [present |-> FALSE, prompt |-> Undefined]
Prompts == {"hello", "how many users are there"}
Bodies == {NoBody} \cup {[present |-> TRUE, prompt |-> x] : x \in Prompts \cup {"", Undefined}}

\* ------------------------------------------------------------ error messages
Thrown(msg) == [thrown |-> TRUE, val |-> msg]
Returned(val) == [thrown |-> FALSE, val |-> val]

GeminiFailed == "Gemini API call failed with status: 503. Response: upstream body"
FetchFailed == "FetchError: request failed"
JsonFailed == "SyntaxError: Unexpected token in JSON"
TypeErrorMsg == "TypeError: Cannot read properties of undefined"
NotAFunction == "TypeError: Auth0Api[functionName] is not a function"
NoToken == "Could not retrieve Auth0 token."
\* The tool appends JSON.stringify(data), here of the JSON string "upstream
\* body"; a body that is not JSON has thrown JsonFailed before the status test.
ApiFailed == "Auth0 API call failed with status: 403. Response: \"upstream body\""
ExpectingFunction == "TypeError: Object.prototype.__defineGetter__: Expecting function"
NotFound(functionName) == "Function " \o functionName \o " not found."

\* --------------------------------------------------- the handler's pure steps
\* callGeminiWithTools after its fetch settled: data.candidates[0].content
\* (shape "no content": undefined), or the error thrown.
callGeminiWithTools(a) ==
    CASE a.net = "neterr" -> Thrown(FetchFailed)
      [] a.net = "status" -> Thrown(GeminiFailed)
      [] a.net = "badjson" -> Thrown(JsonFailed)
      [] a.data.shape = "no candidates" -> Thrown(TypeErrorMsg)
      [] OTHER -> Returned(a.data)

\* callGeminiForResponse after its fetch settled:
\* data.candidates[0].content.parts[0].text, or the error thrown.
callGeminiForResponse(a) ==
    CASE a.net = "neterr" -> Thrown(FetchFailed)
      [] a.net = "status" -> Thrown(GeminiFailed)
      [] a.net = "badjson" -> Thrown(JsonFailed)
      [] a.data.shape # "parts" -> Thrown(TypeErrorMsg)
      [] a.data.parts = <<>> -> Thrown(TypeErrorMsg)
      [] a.data.parts[1].k = "text" -> Returned(a.data.parts[1].v)
      [] OTHER -> Returned(Undefined)

\* geminiResponse.parts || []
PartsOf(geminiResponse) ==
    IF geminiResponse.shape = "parts" THEN geminiResponse.parts ELSE <<>>

\* A find that keeps the last match instead of the first.
FindFunctionCall_Last(parts) ==
    IF \E i \in 1..Len(parts) : parts[i].k = "functionCall"
    THEN CHOOSE i \in 1..Len(parts) :
            /\ parts[i].k = "functionCall"
            /\ \A j \in (i + 1)..Len(parts) : parts[j].k # "functionCall"
    ELSE 0

\* parts.find(part => part.functionCall): the index of the first part that
\* carries the camel-case marker, 0 when there is none.
FindFunctionCall(parts) ==
    IF \E i \in 1..Len(parts) : parts[i].k = "functionCall"
    THEN CHOOSE i \in 1..Len(parts) :
            /\ parts[i].k = "functionCall"
            /\ \A j \in 1..(i - 1) : parts[j].k # "functionCall"
    ELSE 0

\* A reply built from the last part instead of the first.
PlainTextReply_LastPart(parts) ==
    IF Len(parts) >= 1 /\ parts[Len(parts)].k = "text" /\ parts[Len(parts)].v # ""
    THEN parts[Len(parts)].v
    ELSE Apology

\* geminiResponse.parts?.[0]?.text || 'I am sorry, ...'
PlainTextReply(parts) ==
    IF Len(parts) >= 1 /\ parts[1].k = "text" /\ parts[1].v # ""
    THEN parts[1].v
    ELSE Apology

\* The body of the try block from the phase-1 answer to the first of: the
\* response, a throw, or the call of a property of Auth0Api.
\*   [act |-> "throw", val: the error]   an error reaches the catch block
\*   [act |-> "reply", val: the text]    the plain-text branch answers
\*   [act |-> "call"]                    Auth0Api[name]() is called
\* name is the handler's functionName, Undefined where it is never assigned.
Decision(act, val, name) == [act |-> act, val |-> val, name |-> name]
Decide(a) ==
    LET got == callGeminiWithTools(a) IN
    IF got.thrown THEN Decision("throw", got.val, Undefined)
    ELSE IF got.val.shape = "no content" THEN Decision("throw", TypeErrorMsg, Undefined)
    ELSE
        LET parts == PartsOf(got.val)
            i == FindFunctionCall(parts)
        IN  IF i # 0 /\ parts[i].v # ""
            THEN LET name == parts[i].v IN
                 IF Auth0Api(name) # Undefined
                 THEN Decision("call", Undefined, name)
                 ELSE Decision("throw", NotFound(name), name)
            ELSE Decision("reply", PlainTextReply(parts), Undefined)

\* A catch block that sends the error's message to the caller.
CatchResponse_Leaks(error) == Response(500, "error", error)

\* The catch block's response.
CatchResponse(error) == Response(500, "error", GenericError)

\* A cache test that forgets the expiry.
CacheHit_AnyToken(tok, expiry, now) == Truthy(tok)

\* getAuth0Token's cache test: auth0Token && tokenExpiry > now
CacheHit(tok, expiry, now) == Truthy(tok) /\ expiry # NaN /\ expiry > now

\* tokenExpiry = now + (data.expires_in - 300) * 1000
NewExpiry(now, expires_in) ==
    IF expires_in = NaN THEN NaN ELSE now + (expires_in - MarginSeconds) * MsPerSecond

\* ------------------------------------------------------------------- state
VARIABLES
    auth0Token,     \* the cached token (module scope)
    tokenExpiry,    \* the cached expiry in ms, or NaN (module scope)
    clock,          \* Date.now()
    realExpiry,     \* when the provider lets the cached token expire (ms)
    pc,             \* where each handler invocation is suspended
    prompt,         \* the handler's prompt
    now,            \* getAuth0Token's now while its fetch is pending (0 otherwise)
    functionName,   \* the handler's functionName
    calls,          \* the requests each invocation sent to its collaborators, in order
    invoked,        \* the properties of Auth0Api each invocation called, in order
    returned,       \* what getAuth0Token returned to each invocation's tool, in order
    res,            \* the HTTP responses each invocation sent, in order
    before,         \* the invocations that had ended when each one began
    racing,         \* the invocations whose token fetch was pending along with another's
    last            \* the step just taken: whose, which, and the input it drew

vars == <<auth0Token, tokenExpiry, clock, realExpiry, pc, prompt, now, functionName,
          calls, invoked, returned, res, before, racing, last>>

cache == <<auth0Token, tokenExpiry, realExpiry>>

Init ==
    /\ auth0Token = EmptyString
    /\ tokenExpiry = 0
    /\ clock = 0
    /\ realExpiry = 0
    /\ pc = [r \in Requests |-> "idle"]
    /\ prompt = [r \in Requests |-> Undefined]
    /\ now = [r \in Requests |-> 0]
    /\ functionName = [r \in Requests |-> Undefined]
    /\ calls = [r \in Requests |-> <<>>]
    /\ invoked = [r \in Requests |-> <<>>]
    /\ returned = [r \in Requests |-> <<>>]
    /\ res = [r \in Requests |-> <<>>]
    /\ before = [r \in Requests |-> {}]
    /\ racing = {}
    /\ last = [r |-> 0, step |-> "init", input |-> Undefined]

\* The requests sent to collaborators.
Phase1Call(p, tools) == [to |-> "llm", phase |-> 1, prompt |-> p, tools |-> tools]
TokenCall == [to |-> "idp"]
ApiCall(endpoint, tok) == [to |-> "api", endpoint |-> endpoint, token |-> tok]
Phase2Call(p, name, data) ==
    [to |-> "llm", phase |-> 2, prompt |-> p, name |-> name, data |-> data]

Step(r, step, input) == [r |-> r, step |-> step, input |-> input]

\* res.status(s).json(body), after which the handler returns.
Send(r, response) ==
    /\ res' = [res EXCEPT ![r] = Append(@, response)]
    /\ pc' = [pc EXCEPT ![r] = "done"]

\* A failure that ends every pending invocation, not only the one that threw.
Catch_FailsAll(r, error) ==
    LET hit == {q \in Requests : q = r \/ pc[q] \in {"phase1", "token", "resume", "api", "phase2"}} IN
    /\ res' = [q \in Requests |-> IF q \in hit THEN Append(res[q], CatchResponse(error)) ELSE res[q]]
    /\ pc' = [q \in Requests |-> IF q \in hit THEN "done" ELSE pc[q]]

\* An error thrown inside the try block: the catch block answers.
Catch(r, error) == Send(r, CatchResponse(error))

\* A handler that tests the prompt before the method.
Receive_PromptFirst(r, in) ==
    /\ pc[r] = "idle"
    /\ \E method \in Methods, body \in in.bodies :
        /\ last' = Step(r, "receive", [method |-> method, body |-> body])
        /\ before' = [before EXCEPT ![r] = {q \in Requests : pc[q] \in {"done", "rejected"}}]
        /\ IF ~body.present
           THEN /\ pc' = [pc EXCEPT ![r] = "rejected"]
                /\ UNCHANGED <<prompt, calls, res>>
           ELSE IF body.prompt \in {Undefined, ""}
           THEN /\ Send(r, Response(400, "error", PromptRequired))
                /\ UNCHANGED <<prompt, calls>>
           ELSE IF method # "POST"
           THEN /\ Send(r, Response(405, "error", MethodNotAllowed))
                /\ UNCHANGED <<prompt, calls>>
           ELSE /\ prompt' = [prompt EXCEPT ![r] = body.prompt]
                /\ calls' = [calls EXCEPT ![r] = <<Phase1Call(body.prompt, availableTools)>>]
                /\ pc' = [pc EXCEPT ![r] = "phase1"]
                /\ UNCHANGED res
    /\ UNCHANGED <<cache, clock, now, functionName, invoked, returned, racing>>

\* The handler from its entry to the phase-1 fetch (lines 225-244, 133-151).
Receive(r, in) ==
    /\ pc[r] = "idle"
    /\ \E method \in Methods, body \in in.bodies :
        /\ last' = Step(r, "receive", [method |-> method, body |-> body])
        /\ before' = [before EXCEPT ![r] = {q \in Requests : pc[q] \in {"done", "rejected"}}]
        /\ IF method # "POST"
           THEN /\ Send(r, Response(405, "error", MethodNotAllowed))
                /\ UNCHANGED <<prompt, calls>>
           ELSE IF ~body.present
           THEN \* const { prompt } = req.body throws outside the try block:
                \* the handler's promise rejects and nothing was sent.
                /\ pc' = [pc EXCEPT ![r] = "rejected"]
                /\ UNCHANGED <<prompt, calls, res>>
           ELSE IF body.prompt \in {Undefined, ""}
           THEN /\ Send(r, Response(400, "error", PromptRequired))
                /\ UNCHANGED <<prompt, calls>>
           ELSE /\ prompt' = [prompt EXCEPT ![r] = body.prompt]
                /\ calls' = [calls EXCEPT ![r] = <<Phase1Call(body.prompt, availableTools)>>]
                /\ pc' = [pc EXCEPT ![r] = "phase1"]
                /\ UNCHANGED res
    /\ UNCHANGED <<cache, clock, now, functionName, invoked, returned, racing>>

\* A token fetch that begins while others are pending races with them.
Racers(r) ==
    LET pending == {q \in Requests \ {r} : pc[q] = "token"} IN
    IF pending = {} THEN {} ELSE pending \cup {r}

\* A tool that, given a cached token, reuses its earlier result instead of
\* fetching its endpoint again.
CallTool_ReusesResult(r, name) ==
    /\ invoked' = [invoked EXCEPT ![r] = Append(@, name)]
    /\ IF CacheHit(auth0Token, tokenExpiry, clock)
       THEN /\ calls' = [calls EXCEPT ![r] =
                    Append(@, Phase2Call(prompt[r], name, ApiData(Endpoint(name), r)))]
            /\ pc' = [pc EXCEPT ![r] = "phase2"]
            /\ UNCHANGED <<now, racing>>
       ELSE /\ calls' = [calls EXCEPT ![r] = Append(@, TokenCall)]
            /\ now' = [now EXCEPT ![r] = clock]
            /\ pc' = [pc EXCEPT ![r] = "token"]
            /\ racing' = racing \cup Racers(r)
    /\ UNCHANGED <<res, returned>>

\* getAuth0Token returns tok: the tool, suspended at await getAuth0Token()
\* (line 73), resumes in a later turn of the microtask queue.
Return(r, tok) ==
    /\ returned' = [returned EXCEPT ![r] = Append(@, tok)]
    /\ pc' = [pc EXCEPT ![r] = "resume"]

\* A tool function from its entry to its first await (lines 71-73, 20-43):
\* getAuth0Token returns the cached token, or fetches a new one.
CallTool(r, name) ==
    /\ invoked' = [invoked EXCEPT ![r] = Append(@, name)]
    /\ IF CacheHit(auth0Token, tokenExpiry, clock)
       THEN /\ Return(r, auth0Token)
            /\ UNCHANGED <<calls, now, racing>>
       ELSE /\ calls' = [calls EXCEPT ![r] = Append(@, TokenCall)]
            /\ now' = [now EXCEPT ![r] = clock]
            /\ pc' = [pc EXCEPT ![r] = "token"]
            /\ racing' = racing \cup Racers(r)
            /\ UNCHANGED returned
    /\ UNCHANGED res

\* The phase-1 fetch settles; the handler runs to its next await or to its
\* response (lines 153-161, 245-269).
Phase1(r, in) ==
    /\ pc[r] = "phase1"
    /\ \E a \in in.phase1 :
        LET d == Decide(a) IN
        /\ last' = Step(r, "phase1", a)
        /\ functionName' = [functionName EXCEPT ![r] = d.name]
        /\ CASE d.act = "throw" ->
                /\ Catch(r, d.val)
                /\ UNCHANGED <<calls, invoked, now, racing, returned>>
             [] d.act = "reply" ->
                /\ Send(r, Response(200, "response", d.val))
                /\ UNCHANGED <<calls, invoked, now, racing, returned>>
             [] d.act = "call" /\ Auth0Api(d.name) = "own" ->
                CallTool(r, d.name)
             [] d.act = "call" /\ Auth0Api(d.name) = "inherited function"
                    /\ d.name \notin ThrowWithoutArguments ->
                \* The inherited function returns at once; the handler,
                \* suspended at its await (line 256), resumes in a later turn.
                /\ invoked' = [invoked EXCEPT ![r] = Append(@, d.name)]
                /\ pc' = [pc EXCEPT ![r] = "resume"]
                /\ UNCHANGED <<calls, res, now, racing, returned>>
             [] d.act = "call" /\ Auth0Api(d.name) = "inherited function"
                    /\ d.name \in ThrowWithoutArguments ->
                \* The inherited function is called and throws a TypeError.
                /\ invoked' = [invoked EXCEPT ![r] = Append(@, d.name)]
                /\ Catch(r, ExpectingFunction)
                /\ UNCHANGED <<calls, now, racing, returned>>
             [] d.act = "call" /\ Auth0Api(d.name) = "inherited object" ->
                \* Calling a value that is not a function throws a TypeError.
                /\ Catch(r, NotAFunction)
                /\ UNCHANGED <<calls, invoked, now, racing, returned>>
    /\ UNCHANGED <<cache, clock, prompt, before>>

\* The clock values from a to b.
Times(a, b) == {a + k * TickMs : k \in 0..((b - a) \div TickMs)}

\* A tool that sends whatever getAuth0Token returned.
MissingToken_Never(tok) == FALSE

\* The tool's test of the token it was given: if (!token).
MissingToken(tok) == ~Truthy(tok)

\* A refresh that keeps the token another refresh has stored meanwhile.
TokenResult_KeepsCached(a, r) ==
    IF a.net # "ok" THEN NullToken
    ELSE IF Truthy(auth0Token) THEN auth0Token
    ELSE IF a.access_token THEN r ELSE UndefinedToken

\* What getAuth0Token returns once its fetch settled (lines 50-63): the token
\* it has just stored, or null from its catch block.
TokenResult(a, r) ==
    IF a.net # "ok" THEN NullToken
    ELSE IF a.access_token THEN r ELSE UndefinedToken

\* The tool goes on with the token getAuth0Token returned (lines 73-79): it
\* throws, and the handler's catch block answers, or it fetches its endpoint.
ToolResumes(r, tok) ==
    IF MissingToken(tok)
    THEN /\ Catch(r, NoToken)
         /\ UNCHANGED calls
    ELSE /\ calls' = [calls EXCEPT ![r] = Append(@, ApiCall(Endpoint(functionName[r]), tok))]
         /\ pc' = [pc EXCEPT ![r] = "api"]
         /\ UNCHANGED res

\* A catch block that asks the provider once more before giving up.
TokenCatch_Retries(r) ==
    /\ UNCHANGED cache
    /\ IF Len(SelectSeq(calls[r], LAMBDA c : c.to = "idp")) < 2
       THEN /\ calls' = [calls EXCEPT ![r] = Append(@, TokenCall)]
            /\ UNCHANGED <<pc, returned>>
       ELSE /\ Return(r, NullToken)
            /\ UNCHANGED calls

\* A catch block that forgets the cached credential.
TokenCatch_ClearsCache(r) ==
    /\ auth0Token' = EmptyString
    /\ tokenExpiry' = 0
    /\ realExpiry' = 0
    /\ Return(r, NullToken)
    /\ UNCHANGED calls

\* getAuth0Token's catch block (lines 60-63): the fetch rejected, the status
\* was not a success, the body did not parse or was null.  Nothing was stored;
\* null is returned to the tool.
TokenCatch(r) ==
    /\ UNCHANGED cache
    /\ Return(r, NullToken)
    /\ UNCHANGED calls

\* The token fetch settles; getAuth0Token stores the token and returns it, or
\* returns null (lines 45-63).  The provider issued the token at some time
\* between the request and the answer, for the lifetime it declares, or for
\* one it does not declare.
Token(r, in) ==
    /\ pc[r] = "token"
    /\ \E a \in in.token :
        \E issuedAt \in IF a.net = "ok" /\ a.access_token THEN Times(now[r], clock) ELSE {clock} :
        \E lifetime \in IF a.net = "ok" /\ a.access_token /\ a.expires_in = NaN
                        THEN Lifetimes ELSE {a.expires_in} :
        /\ last' = Step(r, "token", [answer |-> a, issuedAt |-> issuedAt, now |-> now[r]])
        /\ IF a.net # "ok"
           THEN TokenCatch(r)
           ELSE /\ auth0Token' = TokenResult(a, r)
                /\ tokenExpiry' = NewExpiry(now[r], a.expires_in)
                /\ realExpiry' = IF a.access_token
                                 THEN issuedAt + lifetime * MsPerSecond
                                 ELSE 0
                /\ Return(r, TokenResult(a, r))
                /\ UNCHANGED calls
    /\ now' = [now EXCEPT ![r] = 0]
    /\ UNCHANGED <<clock, prompt, functionName, invoked, res, before, racing>>

\* The invocation resumes from its await in a later turn of the microtask
\* queue: the tool with the token getAuth0Token returned (lines 73-79), or the
\* handler with what the inherited function returned (lines 256-264).
Resume(r) ==
    /\ pc[r] = "resume"
    /\ last' = Step(r, "resume", Undefined)
    /\ IF Auth0Api(functionName[r]) = "own"
       THEN ToolResumes(r, returned[r][Len(returned[r])])
       ELSE /\ calls' = [calls EXCEPT ![r] =
                    Append(@, Phase2Call(prompt[r], functionName[r],
                                         InheritedResult(functionName[r], r)))]
            /\ pc' = [pc EXCEPT ![r] = "phase2"]
            /\ UNCHANGED res
    /\ UNCHANGED <<cache, clock, prompt, now, functionName, invoked, returned, before, racing>>

\* A handler that, given a tool result, asks the LLM for the next action
\* instead of the final text.
Api_ChainsTools(r, in) ==
    /\ pc[r] = "api"
    /\ \E a \in in.api :
        /\ last' = Step(r, "api", a)
        /\ IF a = "ok" /\ Len(SelectSeq(calls[r], LAMBDA c : c.to = "api")) < Cardinality(ToolNames)
           THEN /\ calls' = [calls EXCEPT ![r] = Append(@, Phase1Call(prompt[r], availableTools))]
                /\ pc' = [pc EXCEPT ![r] = "phase1"]
                /\ UNCHANGED res
           ELSE /\ Catch(r, ApiFailed)
                /\ UNCHANGED calls
    /\ UNCHANGED <<cache, clock, prompt, now, functionName, invoked, returned, before, racing>>

\* A tool that hands the parsed body to the handler whatever the status.
Api_IgnoresStatus(r, in) ==
    /\ pc[r] = "api"
    /\ \E a \in in.api :
        LET asked == calls[r][Len(calls[r])].endpoint IN
        /\ last' = Step(r, "api", a)
        /\ CASE a = "neterr" -> Catch(r, FetchFailed) /\ UNCHANGED calls
             [] a = "badjson" -> Catch(r, JsonFailed) /\ UNCHANGED calls
             [] OTHER ->
                /\ calls' = [calls EXCEPT ![r] =
                        Append(@, Phase2Call(prompt[r], functionName[r], ApiData(asked, r)))]
                /\ pc' = [pc EXCEPT ![r] = "phase2"]
                /\ UNCHANGED res
    /\ UNCHANGED <<cache, clock, prompt, now, functionName, invoked, returned, before, racing>>

\* The tool's fetch settles (lines 81-87); on success the handler calls
\* phase 2 with the data (lines 261-264, 164-190).
Api(r, in) ==
    /\ pc[r] = "api"
    /\ \E a \in in.api :
        LET asked == calls[r][Len(calls[r])].endpoint IN
        /\ last' = Step(r, "api", a)
        /\ CASE a = "neterr" -> Catch(r, FetchFailed) /\ UNCHANGED calls
             [] a = "badjson" -> Catch(r, JsonFailed) /\ UNCHANGED calls
             [] a = "status" -> Catch(r, ApiFailed) /\ UNCHANGED calls
             [] a = "ok" ->
                /\ calls' = [calls EXCEPT ![r] =
                        Append(@, Phase2Call(prompt[r], functionName[r], ApiData(asked, r)))]
                /\ pc' = [pc EXCEPT ![r] = "phase2"]
                /\ UNCHANGED res
    /\ UNCHANGED <<cache, clock, prompt, now, functionName, invoked, returned, before, racing>>

\* The phase-2 fetch settles; the handler answers (lines 192-203, 266).
Phase2(r, in) ==
    /\ pc[r] = "phase2"
    /\ \E a \in in.phase2 :
        LET got == callGeminiForResponse(a) IN
        /\ last' = Step(r, "phase2", a)
        /\ IF got.thrown
           THEN Catch(r, got.val)
           ELSE Send(r, Response(200, "response", got.val))
    /\ UNCHANGED <<cache, clock, prompt, now, functionName, calls, invoked, returned, before, racing>>

\* Time passes.
Tick ==
    /\ clock < MaxTicks * TickMs
    /\ clock' = clock + TickMs
    /\ last' = Step(0, "tick", Undefined)
    /\ UNCHANGED <<cache, pc, prompt, now, functionName, calls, invoked, returned, res, before, racing>>

\* Every input the model draws: one request handled alone.
AllInputs ==
    [bodies |-> Bodies, phase1 |-> Phase1Answers, token |-> TokenAnswers,
     api |-> ApiAnswers, phase2 |-> Phase2Answers]

\* The inputs of the overlapping requests: every answer of the identity
\* provider and of the backing API, and of the LLM a failure and every parts
\* list of plain texts and calls of two registered tools.
CoreTools == {"list_users", "list_signing_keys"}
CoreParts ==
    {TextPart("Hi, how can I help?")} \cup {CallPart("functionCall", n) : n \in CoreTools}
CorePhase1 ==
    {Answer("status", NoData)}
    \cup {Answer("ok", LlmData("parts", ps)) : ps \in SeqsUpTo(CoreParts, MaxParts)}
CorePhase2 ==
    {Answer("status", NoData), Answer("ok", LlmData("parts", <<TextPart("Summary.")>>))}
CoreInputs ==
    [bodies |-> Bodies, phase1 |-> CorePhase1, token |-> TokenAnswers,
     api |-> ApiAnswers, phase2 |-> CorePhase2]

NextOf(R, in) ==
    \/ \E r \in R : Receive(r, in)
    \/ \E r \in R : Phase1(r, in)
    \/ \E r \in R : Token(r, in)
    \/ \E r \in R : Resume(r)
    \/ \E r \in R : Api(r, in)
    \/ \E r \in R : Phase2(r, in)
    \/ Tick

\* One handler invocation, every input.
Next == NextOf({1}, AllInputs)
Spec == Init /\ [][Next]_vars

\* Overlapping handler invocations sharing the token cache.
NextConcurrent == NextOf(Requests, CoreInputs)
SpecConcurrent == Init /\ [][NextConcurrent]_vars

\* ================================================================== claims
\* What the claims speak of, read off the inputs and the logs alone.

\* The responses of the handler.
Reply(text) == Response(200, "response", text)
Failure == Response(500, "error", GenericError)

\* The step just taken was this request's, of this kind.
Took(r, step) == last.r = r /\ last.step = step

\* An LLM answer that carries a parts list.
HasParts(a) == a.net = "ok" /\ a.data.shape = "parts"
\* The positions of its function-call parts, under the given spellings.
CallPositions(a, markers) == {i \in 1..Len(a.data.parts) : a.data.parts[i].k \in markers}
Least(S) == CHOOSE i \in S : \A j \in S : i <= j
\* The name its first function-call part carries.
NamedBy(a, markers) == a.data.parts[Least(CallPositions(a, markers))].v
Names(a, markers) == HasParts(a) /\ CallPositions(a, markers) # {}

\* The calls of one kind a request has made.
CallsTo(r, to) == SelectSeq(calls[r], LAMBDA c : c.to = to)
IsPhase2(c) == c.to = "llm" /\ c.phase = 2
Phase2Calls(r) == SelectSeq(calls[r], IsPhase2)
\* The request has called nothing but phase 1.
OnlyPhase1(r) == calls[r] = <<Phase1Call(prompt[r], availableTools)>>

\* C1: a phase-1 name that is not a registered tool (exact match) ends in the
\* failure response, with no token fetch, no backing-API call, no call of a
\* local function and no phase-2 call.
C1_UnregisteredNameFails ==
    \A r \in Requests :
        (functionName[r] # Undefined /\ functionName[r] \notin ToolNames)
        => /\ pc[r] = "done"
           /\ res[r] = <<Failure>>
           /\ invoked[r] = <<>>
           /\ OnlyPhase1(r)

\* A plain-text phase-1 answer: a parts list of text parts only.
PlainText(a) ==
    /\ HasParts(a)
    /\ a.data.parts # <<>>
    /\ \A i \in 1..Len(a.data.parts) : a.data.parts[i].k = "text"
\* Its text: the texts of its parts, in order.
RECURSIVE TextOf(_)
TextOf(parts) == IF parts = <<>> THEN "" ELSE Head(parts).v \o TextOf(Tail(parts))

\* The handler answered a plain-text phase-1 answer without any other call.
NoToolOnPlainText(r) ==
    /\ pc[r] = "done"
    /\ invoked[r] = <<>>
    /\ OnlyPhase1(r)

\* C2 as stated: after a plain-text phase-1 answer the handler calls neither
\* getAuth0Token, a tool nor phase 2, and answers 200 with the phase-1 text
\* verbatim.
C2_PlainTextVerbatim ==
    \A r \in Requests :
        (Took(r, "phase1") /\ PlainText(last.input))
        => /\ NoToolOnPlainText(r)
           /\ res[r] = <<Reply(TextOf(last.input.data.parts))>>

\* C2 amended: after a plain-text phase-1 answer the handler calls neither
\* getAuth0Token, a tool nor phase 2, and answers 200 with the text of the
\* answer's first part verbatim, or with the fixed apology when that text is
\* empty.
C2_PlainTextFirstPart ==
    \A r \in Requests :
        (Took(r, "phase1") /\ PlainText(last.input))
        => LET first == last.input.data.parts[1].v IN
           /\ NoToolOnPlainText(r)
           /\ res[r] = <<Reply(IF first # "" THEN first ELSE Apology)>>

C2_Witness ==
    /\ Took(1, "phase1")
    /\ PlainText(last.input)
    /\ Len(last.input.data.parts) = 2
    /\ last.input.data.parts[2].v = ""
    /\ res[1] = <<Reply("Hi, how can I help?")>>
    /\ OnlyPhase1(1)

\* The request's phase-2 call, if made, carries its own prompt, the name of the
\* tool it invoked and the data the backing API served to it from that tool's
\* endpoint.
Phase2CarriesOwnResult(r) ==
    \A i \in 1..Len(calls[r]) :
        IsPhase2(calls[r][i])
        => /\ calls[r][i].prompt = calls[r][1].prompt
           /\ calls[r][i].name = invoked[r][1]
           /\ calls[r][i].data = ApiData(Endpoint(invoked[r][1]), r)
           /\ i > 1 /\ calls[r][i - 1] \in {ApiCall(Endpoint(invoked[r][1]), t) : t \in Requests}

\* C3: when the phase-1 answer names a registered tool, the handler invokes
\* exactly that tool exactly once (also when the answer carries several
\* function-call parts), fetches only that tool's endpoint, and its phase-2 call
\* carries the original prompt, that tool's name and that tool's result for this
\* request.
C3_ExactlyThatToolOnce ==
    \A r \in Requests :
        /\ (Took(r, "receive") /\ pc[r] = "phase1")
           => calls[r] = <<Phase1Call(last.input.body.prompt, availableTools)>>
        /\ (Took(r, "phase1") /\ Names(last.input, {"functionCall"})
                /\ NamedBy(last.input, {"functionCall"}) \in ToolNames)
           => invoked[r] = <<NamedBy(last.input, {"functionCall"})>>
        /\ (invoked[r] # <<>> /\ invoked[r][1] \in ToolNames)
           => /\ Len(invoked[r]) = 1
              /\ Len(CallsTo(r, "api")) <= 1
              /\ \A i \in 1..Len(calls[r]) :
                    calls[r][i].to = "api" => calls[r][i].endpoint = Endpoint(invoked[r][1])
              /\ Len(Phase2Calls(r)) <= 1
              /\ Phase2CarriesOwnResult(r)
              /\ (pc[r] = "done" /\ res[r][1].status = 200) => Len(Phase2Calls(r)) = 1

C3_Witness ==
    /\ Took(2, "phase1")
    /\ HasParts(last.input)
    /\ Cardinality(CallPositions(last.input, {"functionCall"})) = 2
    /\ invoked[2] = <<"list_signing_keys">>
    /\ pc[1] = "done"
    /\ res[1][1].status = 200
    /\ Phase2Calls(1) = <<Phase2Call("hello", "list_users", ApiData(list_users, 1))>>
    /\ prompt[2] = "how many users are there"

\* getAuth0Token has just returned a token to this request's tool: the cached
\* one, or the one it has just fetched and stored.
TokenReturned(r) ==
    /\ last.r = r
    /\ last.step \in {"phase1", "token"}
    /\ pc[r] = "resume"
    /\ returned[r] # <<>>
    /\ Truthy(returned[r][1])
    /\ returned[r][1] = auth0Token

\* C4: a token that getAuth0Token returns is returned strictly before its real
\* expiry minus the 300-second margin, on the cached path and on the path that
\* returns a freshly fetched token.
C4_ReturnedBeforeMargin ==
    \A r \in Requests :
        TokenReturned(r) => clock < realExpiry - MarginSeconds * MsPerSecond

\* The requests a request has sent to the identity provider.
TokenCalls(r) == Len(CallsTo(r, "idp"))
\* The cached token is within its validity window now.
InWindow == Truthy(auth0Token) /\ tokenExpiry # NaN /\ clock < tokenExpiry

\* C5: a getAuth0Token call made within the validity window of the cached token
\* returns that token without a request to the identity provider, so that two
\* sequential calls within the window cost at most one request; a call made
\* when the cache is absent or expired sends exactly one request.
C5_CachedWithinWindow ==
    /\ \A r \in Requests : TokenCalls(r) <= 1
    /\ \A r \in Requests :
        (Took(r, "phase1") /\ invoked[r] # <<>> /\ invoked[r][1] \in ToolNames)
        => IF InWindow
           THEN /\ returned[r] = <<auth0Token>>
                /\ calls[r] = <<calls[r][1]>>
                /\ pc[r] = "resume"
           ELSE /\ returned[r] = <<>>
                /\ calls[r] = <<calls[r][1], TokenCall>>
                /\ pc[r] = "token"
    /\ \A r \in Requests :
        (Took(r, "resume") /\ pc[r] = "api" /\ TokenCalls(r) = 0)
        => calls[r] = <<calls[r][1], ApiCall(Endpoint(invoked[r][1]), returned[r][1])>>
    /\ \A p, q \in Requests :
        (p \in before[q] /\ TokenCalls(p) = 1 /\ Took(q, "phase1") /\ InWindow
            /\ invoked[q] # <<>> /\ invoked[q][1] \in ToolNames)
        => TokenCalls(p) + TokenCalls(q) = 1

C5_Witness ==
    /\ Took(2, "resume")
    /\ 1 \in before[2]
    /\ TokenCalls(1) = 1
    /\ TokenCalls(2) = 0
    /\ clock = 0
    /\ auth0Token = 1
    /\ returned[2] = <<1>>
    /\ calls[2] = <<calls[2][1], ApiCall(list_users, 1)>>

\* C6: a phase-1 function-call part is recognised under both spellings,
\* functionCall and function_call: the named tool is taken and the request goes
\* down the tool path.
BothSpellings == {"functionCall", "function_call"}
C6_BothSpellings ==
    \A r \in Requests :
        (Took(r, "phase1") /\ Names(last.input, BothSpellings)
            /\ NamedBy(last.input, BothSpellings) \in ToolNames)
        => /\ functionName[r] = NamedBy(last.input, BothSpellings)
           /\ invoked[r] = <<NamedBy(last.input, BothSpellings)>>

\* C7: a POST whose prompt is missing or empty is answered 400 "Prompt is
\* required." and calls no collaborator.
C7_MissingPromptIs400 ==
    \A r \in Requests :
        (Took(r, "receive") /\ last.input.method = "POST"
            /\ last.input.body.prompt \in {Undefined, ""})
        => /\ res[r] = <<Response(400, "error", PromptRequired)>>
           /\ calls[r] = <<>>
           /\ invoked[r] = <<>>

\* The handler invocation has ended.
Ended(r) == pc[r] \in {"done", "rejected"}

\* C8: every handler invocation sends exactly one HTTP response: never two, and
\* one once it has ended.
C8_ExactlyOneResponse ==
    \A r \in Requests :
        /\ Len(res[r]) <= 1
        /\ Ended(r) => Len(res[r]) = 1

\* The request took the tool path and was answered 200.
Succeeded(r) ==
    /\ pc[r] = "done"
    /\ res[r][1].status = 200
    /\ Len(Phase2Calls(r)) = 1
\* q repeats p: it began after p had ended, with the same prompt, and the LLM
\* named the same tool.
Repeats(q, p) ==
    /\ p \in before[q]
    /\ Succeeded(p) /\ Succeeded(q)
    /\ prompt[p] = prompt[q]
    /\ functionName[p] = functionName[q]
\* Which collaborator a call went to, and for what.
Kind(c) ==
    CASE c.to = "idp" -> "identity provider"
      [] c.to = "api" -> "backing API " \o c.endpoint
      [] c.to = "llm" /\ c.phase = 1 -> "LLM phase 1"
      [] OTHER -> "LLM phase 2"
Kinds(cs) == [i \in 1..Len(cs) |-> Kind(cs[i])]
NotToProvider(c) == c.to # "idp"

\* C9 as stated: a repeated successful tool-path request triggers the same
\* sequence of calls to the identity provider, the backing API and the LLM.
C9_SameCalls ==
    \A p, q \in Requests : Repeats(q, p) => Kinds(calls[q]) = Kinds(calls[p])

\* C9 amended: a repeated successful tool-path request triggers the same
\* sequence of calls to the LLM and the backing API; the runs differ at most in
\* the one call to the identity provider, which the cache spares.
C9_SameCallsButProvider ==
    \A p, q \in Requests :
        Repeats(q, p)
        => /\ Kinds(SelectSeq(calls[q], NotToProvider)) = Kinds(SelectSeq(calls[p], NotToProvider))
           /\ TokenCalls(p) <= 1 /\ TokenCalls(q) <= 1

C9_Witness ==
    /\ Took(2, "phase2")
    /\ Repeats(2, 1)
    /\ Kinds(calls[1]) = <<"LLM phase 1", "identity provider",
                           "backing API " \o list_users, "LLM phase 2">>
    /\ Kinds(calls[2]) = <<"LLM phase 1", "backing API " \o list_users, "LLM phase 2">>

\* The step just taken raised a failure after the prompt check: a phase-1
\* gateway failure, an unknown tool, no credential, an upstream non-success or a
\* phase-2 gateway failure.
GatewayFailure(a) == a.net # "ok" \/ a.data.shape \in {"no candidates", "no content"}
UnknownTool(a) ==
    /\ Names(a, {"functionCall"})
    /\ NamedBy(a, {"functionCall"})
            \notin ToolNames \cup (InheritedFunctions \ ThrowWithoutArguments) \cup {""}
\* getAuth0Token gave the tool of r no token: null or undefined.
NoCredential(r) == returned[r] # <<>> /\ ~Truthy(returned[r][1])
Raised(r) ==
    \/ Took(r, "phase1") /\ (GatewayFailure(last.input) \/ UnknownTool(last.input))
    \/ Took(r, "resume") /\ NoCredential(r)
    \/ Took(r, "api") /\ last.input # "ok"
    \/ Took(r, "phase2") /\ (GatewayFailure(last.input) \/ last.input.data.parts = <<>>)

\* C10: every failure raised after the prompt check is answered 500 with one
\* fixed body, the same for every kind of failure and holding nothing of the
\* failure's message.
C10_GenericFailure ==
    \A r \in Requests :
        /\ Raised(r) => (pc[r] = "done" /\ res[r] = <<Failure>>)
        /\ \A i \in 1..Len(res[r]) : res[r][i].status = 500 => res[r][i] = Failure

C10_Witness ==
    /\ Took(1, "api")
    /\ last.input = "status"
    /\ res[1] = <<Failure>>
    /\ Len(CallsTo(1, "api")) = 1

\* The identity provider's token call failed: the fetch rejected, the status
\* was not a success, or the body did not parse or was null.
TokenCallFailed(r) == Took(r, "token") /\ last.input.answer.net # "ok"

\* C11: when the token call to the identity provider fails, getAuth0Token
\* returns its failure sentinel (null) instead of raising: nothing is answered
\* at that step.  The invoked tool, once it resumes, tests the sentinel, sends
\* nothing to the backing API and fails; phase 2 is never called, and the
\* caller is answered 500.
C11_NoCredentialFails ==
    \A r \in Requests :
        /\ TokenCallFailed(r)
           => /\ returned[r] = <<NullToken>>
              /\ pc[r] = "resume"
              /\ res[r] = <<>>
        /\ (returned[r] = <<NullToken>>)
           => /\ ~Truthy(NullToken)
              /\ functionName[r] \in ToolNames
              /\ invoked[r] = <<functionName[r]>>
              /\ calls[r] = <<Phase1Call(prompt[r], availableTools), TokenCall>>
              /\ CallsTo(r, "api") = <<>>
              /\ Phase2Calls(r) = <<>>
              /\ pc[r] \in {"resume", "done"}
              /\ pc[r] = "done" => res[r] = <<Failure>>
        /\ (Took(r, "resume") /\ returned[r] = <<NullToken>>)
           => /\ pc[r] = "done"
              /\ res[r] = <<Failure>>

C11_Witness ==
    /\ Took(1, "resume")
    /\ returned[1] = <<NullToken>>
    /\ invoked[1] = <<"list_users">>
    /\ calls[1][Len(calls[1])] = TokenCall
    /\ res[1] = <<Failure>>

\* C12: a request whose method is not POST is answered 405 with the body
\* {error: 'Method Not Allowed'} and calls no collaborator, whatever its body:
\* with a missing prompt it still gets 405, not 400.
C12_NonPostIs405 ==
    \A r \in Requests :
        (Took(r, "receive") /\ last.input.method # "POST")
        => /\ pc[r] = "done"
           /\ res[r] = <<[status |-> 405, body |-> Body("error", "Method Not Allowed")]>>
           /\ calls[r] = <<>>
           /\ invoked[r] = <<>>

C12_Witness ==
    /\ Took(1, "receive")
    /\ last.input.method = "GET"
    /\ last.input.body.present
    /\ last.input.body.prompt = Undefined
    /\ res[1][1].status = 405
    /\ calls[1] = <<>>

\* The place of a call in the handler's order: phase 1, the token fetch, the
\* tool's fetch, phase 2.
Rank(c) ==
    CASE c.to = "llm" /\ c.phase = 1 -> 1
      [] c.to = "idp" -> 2
      [] c.to = "api" -> 3
      [] OTHER -> 4

\* C13: within one request the collaborator calls are strictly ordered and
\* never loop: phase 1 comes first and has completed before a token fetch or a
\* tool invocation starts, the tool invocation has completed before phase 2
\* starts, no phase-1 call follows a tool result, and there is at most one
\* phase-1 call, one tool invocation and one phase-2 call.
C13_OrderedNoLoop ==
    \A r \in Requests :
        /\ \A i, j \in 1..Len(calls[r]) : i < j => Rank(calls[r][i]) < Rank(calls[r][j])
        /\ calls[r] # <<>> => Rank(calls[r][1]) = 1
        /\ Len(invoked[r]) <= 1
        /\ pc[r] = "phase1" => (Len(calls[r]) = 1 /\ invoked[r] = <<>>)
        /\ Len(calls[r]) > 1 => Len(invoked[r]) = 1
        /\ pc[r] \in {"token", "resume", "api"} => (Len(invoked[r]) = 1 /\ Phase2Calls(r) = <<>>)
        /\ pc[r] = "phase2" => IsPhase2(calls[r][Len(calls[r])])

C13_Witness ==
    /\ Took(1, "phase2")
    /\ [i \in 1..Len(calls[1]) |-> Rank(calls[1][i])] = <<1, 2, 3, 4>>
    /\ invoked[1] = <<"get_tenant_settings">>
    /\ res[1][1].status = 200

\* The cache as the handler reads it.
stored == <<auth0Token, tokenExpiry>>
\* The step just taken was a token fetch of r that the provider answered with
\* a JSON body: a refresh that completed and wrote the cache.
Refreshed(r) == Took(r, "token") /\ last.input.answer.net = "ok"
\* The token the tool of r has sent to the backing API.
TokenSent(r) == calls[r][Len(calls[r])].token

\* C14: when the token fetches of concurrent requests overlap, under every
\* interleaving every refresh that completes writes the token and the expiry
\* together, both its own, and returns the token it wrote; each request that
\* obtains a token from its refresh goes on with the token that refresh was
\* issued, whatever another refresh has stored meanwhile; and the cache changes
\* at no other step: once all refreshes have completed it holds the pair
\* written by the one that completed last.
C14_LastRefreshWins ==
    /\ [](\A r \in Requests :
            /\ Refreshed(r)
               => /\ auth0Token = (IF last.input.answer.access_token THEN r ELSE UndefinedToken)
                  /\ tokenExpiry = NewExpiry(last.input.now, last.input.answer.expires_in)
                  /\ returned[r] = <<auth0Token>>
            /\ (TokenCalls(r) = 1 /\ returned[r] # <<>> /\ Truthy(returned[r][1]))
               => returned[r] = <<r>>
            /\ (Took(r, "resume") /\ pc[r] = "api")
               => /\ Truthy(returned[r][1])
                  /\ TokenSent(r) = returned[r][1])
    /\ [][stored' # stored
            => last'.step = "token" /\ last'.input.answer.net = "ok"]_vars

C14_Witness ==
    /\ Took(1, "resume")
    /\ racing = {1, 2}
    /\ pc[1] = "api" /\ TokenSent(1) = 1
    /\ pc[2] = "resume" /\ returned[2] = <<2>>
    /\ auth0Token = 2
    /\ tokenExpiry = NewExpiry(0, 400)

\* A phase-1 answer with a non-success status or without the expected
\* structure: no candidates, a candidate with no content, content with no parts.
Phase1Unusable(a) ==
    \/ a.net = "status"
    \/ a.net = "ok" /\ a.data.shape \in {"no candidates", "no content", "no parts"}

\* C15: a phase-1 answer with a non-success status or without the expected
\* structure ends the request with 500, never 200, and no token fetch, tool
\* invocation or phase-2 call is made.
C15_Phase1FailureIs500 ==
    \A r \in Requests :
        (Took(r, "phase1") /\ Phase1Unusable(last.input))
        => /\ pc[r] = "done"
           /\ res[r] = <<Failure>>
           /\ invoked[r] = <<>>
           /\ OnlyPhase1(r)

\* A phase-2 answer whose first part carries a text.
HasText(a) ==
    /\ HasParts(a)
    /\ a.data.parts # <<>>
    /\ a.data.parts[1].k = "text"

\* C16: on the tool path the 200 response is the text of the first part of the
\* phase-2 answer; a phase-2 answer with a non-success status or without the
\* expected structure (no candidate, a first part without text) ends the
\* request with 500, never with a 200 whose text is absent.
C16_Phase2TextOr500 ==
    \A r \in Requests :
        (invoked[r] # <<>> /\ invoked[r][1] \in ToolNames)
        => /\ Took(r, "phase2")
              => /\ pc[r] = "done"
                 /\ res[r] = <<IF HasText(last.input)
                               THEN Reply(last.input.data.parts[1].v)
                               ELSE Failure>>
           /\ \A i \in 1..Len(res[r]) :
                 res[r][i].status = 200 => res[r][i].body.val # Undefined

\* C17: when a registered tool has its token and the backing API answers with
\* a non-success status, the invocation fails: the request ends with 500, no
\* phase-2 call is made, and the tool was invoked and its endpoint fetched
\* once only.
C17_UpstreamFailureIs500 ==
    \A r \in Requests :
        /\ Len(CallsTo(r, "api")) <= 1
        /\ (Took(r, "api") /\ last.input = "status")
           => /\ pc[r] = "done"
              /\ res[r] = <<Failure>>
              /\ Phase2Calls(r) = <<>>
              /\ Len(invoked[r]) = 1
              /\ invoked[r][1] \in ToolNames
              /\ Len(CallsTo(r, "api")) = 1
              /\ TokenSent(r) \in Requests
              /\ calls[r][Len(calls[r])].endpoint = Endpoint(invoked[r][1])

C17_Witness ==
    /\ Took(1, "api")
    /\ last.input = "status"
    /\ invoked[1] = <<"list_signing_keys">>
    /\ TokenCalls(1) = 1
    /\ TokenSent(1) = 1
    /\ res[1] = <<Failure>>

\* The token fetch of r has just ended without a token: a rejected fetch, a
\* non-success status, an unparseable or null body or a body without
\* access_token.
NoTokenObtained(r) ==
    /\ Took(r, "token")
    /\ (last.input.answer.net # "ok" \/ ~last.input.answer.access_token)

\* C18: one getAuth0Token call sends at most one request to the identity
\* provider and never retries: when that request fails, getAuth0Token returns
\* its failure result at that very step, having asked the provider once, and
\* each call returns once.
C18_NoRetry ==
    \A r \in Requests :
        /\ TokenCalls(r) <= 1
        /\ Len(returned[r]) <= 1
        /\ pc[r] = "token"
           => /\ TokenCalls(r) = 1
              /\ calls[r][Len(calls[r])] = TokenCall
              /\ returned[r] = <<>>
        /\ NoTokenObtained(r)
           => /\ returned[r] \in {<<NullToken>>, <<UndefinedToken>>}
              /\ TokenCalls(r) = 1
              /\ calls[r][Len(calls[r])] = TokenCall
              /\ pc[r] = "resume"

C18_Witness ==
    /\ Took(1, "token")
    /\ last.input.answer.net = "neterr"
    /\ TokenCalls(1) = 1
    /\ returned[1] = <<NullToken>>
    /\ pc[1] = "resume"

\* C19: a token refresh that fails (rejected fetch, non-success status,
\* unparseable body) leaves the cached token and the cached expiry as they
\* were, also when another request's refresh has stored a credential
\* meanwhile: that credential still serves a later call.
C19_FailedRefreshKeepsCache ==
    [][\A r \in Requests :
            (last'.r = r /\ last'.step = "token" /\ last'.input.answer.net # "ok")
            => /\ stored' = stored
               /\ InWindow => InWindow']_vars

C19_Witness ==
    /\ Took(1, "token")
    /\ last.input.answer.net = "badjson"
    /\ racing = {1, 2}
    /\ auth0Token = 2
    /\ InWindow
    /\ pc[2] = "api" /\ TokenSent(2) = 2

\* What a request is answered at the step that ends it, by the answer that
\* step drew.
Phase1Outcome(a) ==
    IF ~HasParts(a) THEN Failure
    ELSE IF a.data.parts = <<>> THEN Reply(Apology)
    ELSE Reply(a.data.parts[1].v)
Phase2Outcome(a) == IF HasText(a) THEN Reply(a.data.parts[1].v) ELSE Failure

\* The two requests were in progress at the same time.
Overlapping(p, q) == p # q /\ p \notin before[q] /\ q \notin before[p] /\ pc[p] # "idle" /\ pc[q] # "idle"

\* C20: concurrent requests are isolated but for the credential cache: under
\* every interleaving a step of one request changes nothing of another (its
\* position, its prompt, its tool, its calls, its response), and the response
\* of a request is what its own prompt, its own phase-1 answer, its own tool
\* result and its own phase-2 answer make it.
C20_Isolated ==
    /\ [](\A r \in Requests :
            /\ (Took(r, "phase1") /\ pc[r] = "done") => res[r] = <<Phase1Outcome(last.input)>>
            /\ (Took(r, "resume") /\ pc[r] = "done") => res[r] = <<Failure>>
            /\ (Took(r, "api") /\ pc[r] = "done") => res[r] = <<Failure>>
            /\ Took(r, "phase2")
               => /\ res[r] = <<Phase2Outcome(last.input)>>
                  /\ Phase2CarriesOwnResult(r)
            /\ calls[r] # <<>> => calls[r][1] = Phase1Call(prompt[r], availableTools))
    /\ [][\A r \in Requests :
            last'.r # r
            => /\ pc'[r] = pc[r]
               /\ prompt'[r] = prompt[r]
               /\ functionName'[r] = functionName[r]
               /\ calls'[r] = calls[r]
               /\ invoked'[r] = invoked[r]
               /\ res'[r] = res[r]]_vars

C20_Witness ==
    /\ Took(2, "phase2")
    /\ Overlapping(1, 2)
    /\ prompt[1] # prompt[2]
    /\ res[1] = <<Failure>>
    /\ Len(calls[1]) = 3
    /\ res[2] = <<Reply("Summary.")>>

====
